---------------------------- MODULE Spec2Model ----------------------------
(***************************************************************************)
(* KSeF desktop backend: the KSeFService singleton (authentication state   *)
(* machine, refresh timer, invoice gateway), the SQLite invoice cache and  *)
(* the Express handlers that call the service.                             *)
(*                                                                         *)
(* One process (call[p]) is one invocation of a service method or HTTP     *)
(* handler.  An action is one stretch of JavaScript between two awaits:    *)
(* it issues the remote request the code awaits next, takes the response   *)
(* (chosen by the environment with \E) and runs the code up to the next    *)
(* request.  call[p].reqs records the remote requests the invocation has   *)
(* issued, in order (a run of status polls as one entry).                  *)
(*                                                                         *)
(* Time is in milliseconds.  The wall clock `now` advances in steps of the *)
(* refresh interval (60 s); in Spec an invocation runs to completion       *)
(* between two clock steps and invocations do not overlap.  The polling    *)
(* loop's own clock (Date.now() - startTime) is call[p].elapsed.  The      *)
(* local SQLite database is reliable, the remote API is not.               *)
(***************************************************************************)
EXTENDS Integers, Sequences, FiniteSets, TLC

(***************************************************************************)
(* Bounds of the model                                                     *)
(***************************************************************************)
\* number of 60 s clock steps explored
MaxTicks == 2
\* processes (invocations that may exist at once)
NumProcs == 2
\* offset between the API server's clock and the local clock, in ms
ServerSkewMs == 7

Procs == 1..NumProcs
\* the process that runs the invocations of Spec, one after the other
Main == CHOOSE p \in Procs : \A q \in Procs : p <= q

(***************************************************************************)
(* Program constants                                                       *)
(***************************************************************************)
RefreshIntervalMs == 60000
FiveMinutesMs == 5 * 60 * 1000
CacheExpirationMs == 5 * 60 * 1000
PollIntervalMs == 500
MaxWaitMs == 5000

MaxNow == MaxTicks * RefreshIntervalMs

(***************************************************************************)
(* JavaScript values.  A string the code takes apart (the raw KSeF token)  *)
(* is a sequence of one-character strings; null is Null.  Opaque strings   *)
(* (JWTs, reference numbers, certificates) are TLA+ strings, with "null"   *)
(* and "undefined" for the two absent values.                              *)
(***************************************************************************)
Null == <<"NULL">>
Undefined == <<"UNDEFINED">>

Truthy(s) == s \notin {Null, Undefined, <<>>}

TruthyStr(s) == s \notin {"null", "undefined", ""}

Min(a, b) == IF a < b THEN a ELSE b

\* String.prototype.split(d): the segments of s between occurrences of d
RECURSIVE SplitFrom(_, _, _, _)
SplitFrom(s, d, i, cur) ==
  IF i > Len(s) THEN <<cur>>
  ELSE IF s[i] = d THEN <<cur>> \o SplitFrom(s, d, i + 1, <<>>)
  ELSE SplitFrom(s, d, i + 1, Append(cur, s[i]))

Split(s, d) == SplitFrom(s, d, 1, <<>>)

\* whether pat occurs in s at position i
OccursAt(s, pat, i) ==
  /\ i + Len(pat) - 1 <= Len(s)
  /\ \A k \in 1..Len(pat) : s[i + k - 1] = pat[k]

\* String.prototype.replace(pat, ''): s without the first occurrence of pat
RemoveFirst(s, pat) ==
  LET hits == {i \in 1..Len(s) : OccursAt(s, pat, i)}
  IN IF hits = {} THEN s
     ELSE LET i == CHOOSE j \in hits : \A k \in hits : j <= k
          IN SubSeq(s, 1, i - 1) \o SubSeq(s, i + Len(pat), Len(s))

NipPrefix == <<"n", "i", "p", "-">>

\* String.prototype.startsWith(prefix)
StartsWith(s, prefix) == Len(prefix) <= Len(s) /\ SubSeq(s, 1, Len(prefix)) = prefix

\* String.prototype.trim(): s without its leading and trailing white space
WhiteSpace == {" "}

RECURSIVE TrimStart(_)
TrimStart(s) ==
  IF s # <<>> /\ Head(s) \in WhiteSpace THEN TrimStart(Tail(s)) ELSE s

RECURSIVE TrimEnd(_)
TrimEnd(s) ==
  IF s # <<>> /\ s[Len(s)] \in WhiteSpace THEN TrimEnd(SubSeq(s, 1, Len(s) - 1)) ELSE s

Trim(s) == TrimEnd(TrimStart(s))

(***************************************************************************)
(* Dates.  tokenExpiration is a Date or null; new Date(x) of something     *)
(* unparsable is an Invalid Date, whose comparisons are all false.         *)
(***************************************************************************)
NoDate == [k |-> "null", t |-> 0]
InvalidDate == [k |-> "invalid", t |-> 0]
DateOf(t) == [k |-> "date", t |-> t]

\* new Date(validUntil): validUntil is an ISO-8601 instant with a zone, or missing
NewDate(validUntil) ==
  IF validUntil.k = "iso" THEN DateOf(validUntil.t) ELSE InvalidDate

\* d > new Date()
DateAfter(d, t) == d.k = "date" /\ d.t > t

\* cached_at DATETIME DEFAULT CURRENT_TIMESTAMP: SQLite writes the UTC time
\* as text 'YYYY-MM-DD HH:MM:SS'; the value is that UTC instant, whole seconds
SqlCurrentTimestamp(t) == t - (t % 1000)

\* new Date('YYYY-MM-DD HH:MM:SS').getTime(): a date-time text without a zone
\* is read as local time, so the instant is off by the zone's UTC offset
ParseLocalTime(text, offset) == text - offset

(***************************************************************************)
(* The stored configuration (table config) and the raw tokens tried.       *)
(***************************************************************************)
GoodToken == <<"R", "|", "n", "i", "p", "-", "7", "|", "S">>
OtherToken == <<"R", "|", "n", "i", "p", "-", "8", "|", "S">>
MalformedToken == <<"X">>

\* encryptData: AES ciphertext of a non-empty text (here the text behind a
\* marker no plain token starts with), '' for an empty one
EncryptData(plainText) ==
  IF ~Truthy(plainText) THEN <<>> ELSE <<"#">> \o plainText

\* decryptData: the plain text of a ciphertext; a text that does not decrypt
\* (old plain-text data) is returned as it is
DecryptData(encryptedText) ==
  IF ~Truthy(encryptedText) THEN <<>>
  ELSE IF Head(encryptedText) = "#" /\ Len(encryptedText) > 1 THEN Tail(encryptedText)
  ELSE encryptedText

\* the row of table config (token and certificate_password as stored)
NoConfig ==
  [exists |-> FALSE, auth_method |-> "", nip |-> Null, token |-> Null,
   certificate_path |-> Null, certificate_password |-> Null]
TokenConfig(tok) ==
  [exists |-> TRUE, auth_method |-> "token", nip |-> Null, token |-> EncryptData(tok),
   certificate_path |-> Null, certificate_password |-> Null]

InitConfigs == {NoConfig, TokenConfig(GoodToken), TokenConfig(MalformedToken)}

\* getConfig(): the row with its sensitive columns decrypted, null without a row
GetConfigOf(row) ==
  [row EXCEPT !.token = IF Truthy(@) THEN DecryptData(@) ELSE Null,
              !.certificate_password = IF Truthy(@) THEN DecryptData(@) ELSE Null]

\* UTC offsets of the zone the process runs in: UTC, and CET (Poland)
TzOffsetsMs == {0, 60 * 60 * 1000}

(***************************************************************************)
(* The invoice cache: the rows of table invoices_cache.                    *)
(***************************************************************************)
Ids == {"a", "b", "c"}
Directions == {"received", "sent"}

\* a row: id is the primary key, ksef_id is UNIQUE; both are the ksefNumber
Row(inv, t) ==
  [id |-> inv.id, ksef_id |-> inv.id, type |-> inv.type, cached_at |-> t, data |-> inv]
Inv(id, amount, type) == [id |-> id, amount |-> amount, type |-> type]

\* metadata records the remote API returns
Meta(id, gross) == [ksefNumber |-> id, grossAmount |-> gross]

\* mapMetadataToInvoice
MapMetadataToInvoice(metadata, type) ==
  [id |-> metadata.ksefNumber, amount |-> metadata.grossAmount, type |-> type]

\* variant: INSERT OR IGNORE, a row already cached under the id is kept
CacheInvoiceIfAbsent(c, inv, t) ==
  IF \E r \in c : r.id = inv.id THEN c
  ELSE c \cup {[id |-> inv.id, ksef_id |-> inv.id, type |-> inv.type,
                 cached_at |-> t - (t % 1000), data |-> inv]}

\* variant: plain INSERT with no uniqueness enforced
CacheInvoiceInsertOnly(c, inv, t) ==
  c \cup {[id |-> inv.id, ksef_id |-> inv.id, type |-> inv.type,
            cached_at |-> t - (t % 1000), data |-> inv]}

\* INSERT OR REPLACE INTO invoices_cache ...: the rows that conflict with the
\* new one on id or on ksef_id are deleted, then the new row is inserted;
\* cached_at is the default, the time of the write
CacheInvoice(c, inv, t) ==
  LET row == Row(inv, SqlCurrentTimestamp(t))
  IN {r \in c : r.id # row.id /\ r.ksef_id # row.ksef_id} \cup {row}

\* the batch loop of getReceivedInvoices / getSentInvoices over the mapped invoices
RECURSIVE CacheAll(_, _, _)
CacheAll(c, invs, t) ==
  IF invs = <<>> THEN c
  ELSE CacheAll(CacheInvoice(c, Head(invs), t), Tail(invs), t)

RECURSIVE Perms(_)
Perms(S) ==
  IF S = {} THEN {<<>>}
  ELSE UNION {{<<x>> \o q : q \in Perms(S \ {x})} : x \in S}

\* SELECT * FROM invoices_cache WHERE type = ? ORDER BY cached_at DESC
\* LIMIT ? OFFSET ?: every page SQL allows (rows with equal cached_at come in
\* any order); a page is a sequence of rows, each with its id
QueryPages(c, type, limit, offset) ==
  LET M == {r \in c : r.type = type}
      ordered == {s \in Perms(M) :
                    \A i, j \in 1..Len(s) :
                       i < j => s[i].cached_at >= s[j].cached_at}
      page(s) == SubSeq(s, offset + 1, Min(offset + limit, Len(s)))
  IN {[k \in 1..Len(page(s)) |->
         [id |-> page(s)[k].id, cached_at |-> page(s)[k].cached_at,
          data |-> page(s)[k].data]] : s \in ordered}

\* cachedInvoices.map(inv => JSON.parse(inv.data))
ParseData(rows) == [k \in 1..Len(rows) |-> rows[k].data]

\* caches the database may hold when the process starts
EmptyCache == {}

InitCaches ==
  { EmptyCache,
    {Row(Inv("a", 1, "received"), 0 - 4 * RefreshIntervalMs)},
    {Row(Inv("a", 1, "received"), 0 - 10 * RefreshIntervalMs),
     Row(Inv("c", 1, "sent"), 0 - 4 * RefreshIntervalMs)} }

\* (direction, limit, offset) of the list calls made
ListArgs == {<<"received", 2, 0>>, <<"sent", 2, 0>>, <<"received", 1, 1>>}

(***************************************************************************)
(* Responses of the remote API                                             *)
(***************************************************************************)
Cert(usage, certificate) == [usage |-> usage, certificate |-> certificate]

\* GET /security/public-key-certificates: bodies of a 2xx response
CertLists ==
  { <<>>,
    <<Cert({"SymmetricKeyEncryption"}, "certA"), Cert({"KsefTokenEncryption"}, "certB")>>,
    <<Cert({}, "certX")>> }

\* certificates crypto.createPublicKey can read
ParsableCerts == {"certA", "certB"}

\* POST /auth/challenge: 2xx bodies; timestampMs 0 and timestamp "none" are absent
ChallengeBody(ch, ms, iso) == [challenge |-> ch, timestampMs |-> ms, timestamp |-> iso]
NoIso == [k |-> "none", t |-> 0]
Iso(t) == [k |-> "iso", t |-> t]

ChallengeBodies(t) ==
  { ChallengeBody("", 0, NoIso),
    ChallengeBody("ch", t + ServerSkewMs, Iso(t + ServerSkewMs)),
    ChallengeBody("ch", 0, Iso(t + ServerSkewMs)),
    ChallengeBody("ch", 0, NoIso) }

\* POST /auth/ksef-token: 2xx bodies
SubmitBody(hasAuth, tok, ref) == [hasAuth |-> hasAuth, token |-> tok, referenceNumber |-> ref]

SubmitBodies ==
  { SubmitBody(FALSE, "undefined", "ref1"),
    SubmitBody(TRUE, "tmp1", "ref1"),
    SubmitBody(TRUE, "tmp1", "undefined") }

\* GET /auth/{referenceNumber}: status codes of a 2xx body, a body without
\* status, HTTP 404, any other request error
PollOutcomes == {"200", "100", "450", "nostatus", "http404", "error"}

\* POST /auth/token/redeem: 2xx bodies
RedeemBody(hasAccess, tok, validUntil) ==
  [hasAccess |-> hasAccess, token |-> tok, validUntil |-> validUntil]

TokenTtlsMs == {1 * RefreshIntervalMs, 6 * RefreshIntervalMs}

\* the server issues another access token with every redeem response
IssuedToken(ttl) == IF ttl = RefreshIntervalMs THEN "jwt1" ELSE "jwt6"

RedeemBodies(t) ==
  {RedeemBody(FALSE, "undefined", NoIso), RedeemBody(TRUE, "jwt", NoIso)}
  \cup {RedeemBody(TRUE, IssuedToken(ttl), Iso(t + ttl)) : ttl \in TokenTtlsMs}

\* POST /invoices/query/metadata: the invoices arrays of a 2xx body
MetaLists ==
  { <<>>, <<Meta("b", 1), Meta("a", 2)>> }

(***************************************************************************)
(* State                                                                   *)
(***************************************************************************)
VARIABLES
  accessToken,           \* KSeFService.accessToken
  tokenExpiration,       \* KSeFService.tokenExpiration
  ksefToken,             \* KSeFService.ksefToken
  nip,                   \* KSeFService.nip
  publicKeyCertificate,  \* KSeFService.publicKeyCertificate
  credentialOf,          \* history: the raw token accessToken was obtained with
  refreshTimer,          \* KSeFService.refreshTimer: "null" or "active"
  liveIntervals,         \* intervals set with setInterval and not cleared
  config,                \* the row of table config
  cache,                 \* table invoices_cache
  now,                   \* Date.now()
  tz,                    \* UTC offset of the process's time zone
  probe,                 \* argument and result of a pure function under test
  call                   \* the invocations: position, locals, requests issued

vars == <<accessToken, tokenExpiration, ksefToken, nip, publicKeyCertificate,
          credentialOf, refreshTimer, liveIntervals, config, cache, now, tz, probe, call>>

service == <<accessToken, tokenExpiration, ksefToken, nip, publicKeyCertificate,
            credentialOf>>

NoPlain == [token |-> Null, ts |-> 0]
NoResult == [k |-> "none"]
InvoicesResult(invs) == [k |-> "invoices", v |-> invs]
BoolResult(b) == [k |-> "bool", v |-> b]
NullResult == [k |-> "null"]
PayloadResult == [k |-> "payload"]

NoProbe == [k |-> "none"]

\* no response of POST /auth/challenge at hand
NoChallengeResponse == ChallengeBody("", 0, NoIso)

IdleCall ==
  [ kind |-> "none", via |-> "svc", pc |-> "idle",
    dir |-> "", limit |-> 0, offset |-> 0,
    cachedInvoices |-> <<>>,
    challengeResponse |-> NoChallengeResponse,
    tokenToEncrypt |-> NoPlain,
    tempAuthToken |-> "null", referenceNumber |-> "null",
    elapsed |-> 0, pollAttempt |-> 0,
    reqs |-> <<>>,
    startValid |-> FALSE, after401 |-> FALSE, got401 |-> FALSE, metaFailed |-> FALSE,
    metaInvoices |-> <<>>, fetched |-> FALSE, replaced |-> FALSE,
    sawNotReady |-> FALSE, sawTerminal |-> FALSE, slowPoll |-> FALSE,
    pollEnd |-> "none", redeemed |-> "none",
    result |-> NoResult, http |-> NoResult ]

\* the service after construction, the database as found
InitService ==
  /\ accessToken = "null"
  /\ tokenExpiration = NoDate
  /\ ksefToken = Null
  /\ nip = Null
  /\ publicKeyCertificate = "null"
  /\ credentialOf = Null
  /\ refreshTimer = "null"
  /\ liveIntervals = 0
  /\ config \in InitConfigs
  /\ cache \in InitCaches
  /\ now = 0
  /\ tz \in TzOffsetsMs
  /\ call = [p \in Procs |-> IdleCall]

Init ==
  /\ InitService
  /\ probe = NoProbe

(***************************************************************************)
(* KSeFService: session validity                                           *)
(***************************************************************************)
\* variant: the expiry is not looked at
IsInitializedIgnoringExpiry == accessToken \notin {"null", "undefined", ""}

\* isInitialized(): !!accessToken && (!tokenExpiration || tokenExpiration > new Date())
IsInitialized ==
  TruthyStr(accessToken) /\ (tokenExpiration.k = "null" \/ DateAfter(tokenExpiration, now))

AllIdle == \A q \in Procs : call[q].pc = "idle"

\* the request log; a run of consecutive status polls is one "poll" entry
Req(c, name) ==
  IF name = "poll" /\ c.reqs # <<>> /\ c.reqs[Len(c.reqs)] = "poll" THEN c
  ELSE [c EXCEPT !.reqs = Append(@, name)]

\* what the Express handler sends for the value the service returned
HttpResponse(c, res) ==
  IF c.via # "http" THEN NoResult
  ELSE IF c.kind = "list" THEN [k |-> "http", success |-> TRUE, invoices |-> res.v]
  ELSE IF c.kind = "init" THEN [k |-> "http", success |-> res.v, invoices |-> <<>>]
  ELSE IF c.kind = "save" THEN [k |-> "http", success |-> TRUE, invoices |-> <<>>]
  ELSE [k |-> "http", success |-> (res.k = "payload"), invoices |-> <<>>]

\* the handler's answer when its isInitialized() gate (or its config check) fails
HttpRefused == [k |-> "http", success |-> FALSE, invoices |-> <<>>]

\* the invocation returns res; the locals of the authentication flow are gone
Finish(c, res) ==
  [c EXCEPT !.pc = "done", !.result = res, !.http = HttpResponse(c, res),
            !.challengeResponse = NoChallengeResponse,
            !.tokenToEncrypt = NoPlain, !.tempAuthToken = "null",
            !.referenceNumber = "null", !.elapsed = 0, !.pollAttempt = 0]

\* variant: a failed step does not end the attempt, which goes on to redeem
AuthFailedGoesOn(c) == [c EXCEPT !.pc = "redeem"]

\* variant: after a failed initialize() a list call returns [] whatever it read
AuthFailedReturnsEmpty(c) ==
  IF c.kind = "list" THEN Finish(c, InvoicesResult(<<>>))
  ELSE Finish(c, BoolResult(FALSE))

\* initialize() returned false: getReceivedInvoices returns the page it read
\* ("even if stale", or []), the other callers get false
AuthFailed(c) ==
  IF c.kind = "list" THEN Finish(c, InvoicesResult(ParseData(c.cachedInvoices)))
  ELSE Finish(c, BoolResult(FALSE))

\* initialize() returned true
AuthSucceeded(c) ==
  IF c.kind = "list"
  THEN [c EXCEPT !.pc = "metadata", !.tempAuthToken = "null",
                 !.referenceNumber = "null", !.elapsed = 0, !.pollAttempt = 0]
  ELSE Finish(c, BoolResult(TRUE))

(***************************************************************************)
(* initialize() and the authentication flow                                *)
(***************************************************************************)
\* the nip initialize() derives from the token (unchanged when the token has
\* fewer than two segments)
ExtractNip(token, old) ==
  LET tokenParts == Split(token, "|")
  IN IF Len(tokenParts) >= 2 THEN RemoveFirst(tokenParts[2], NipPrefix) ELSE old

\* initialize(), from getConfig() to the call of authenticateWithKSeF()
InitializeBegin(p) ==
  LET c == call[p]
      cfg == GetConfigOf(config)
  IN
  /\ c.pc = "init"
  /\ IF cfg.exists /\ cfg.auth_method = "token" /\ Truthy(cfg.token)
     THEN /\ ksefToken' = cfg.token
          /\ nip' = ExtractNip(cfg.token, nip)
          /\ call' = [call EXCEPT ![p] = [c EXCEPT !.pc = "cert"]]
     ELSE /\ call' = [call EXCEPT ![p] = AuthFailed(c)]
          /\ UNCHANGED <<ksefToken, nip>>
  /\ UNCHANGED <<accessToken, tokenExpiration, publicKeyCertificate, credentialOf,
                 refreshTimer, liveIntervals,
                 config, cache, now, tz, probe>>

\* the certificate loadPublicKeyCertificate() keeps from a non-empty list
SelectCertificate(list) ==
  LET tagged == {i \in 1..Len(list) : "KsefTokenEncryption" \in list[i].usage}
  IN IF tagged # {}
     THEN list[CHOOSE i \in tagged : \A j \in tagged : i <= j].certificate
     ELSE list[1].certificate

\* loadPublicKeyCertificate(): GET /security/public-key-certificates
LoadPublicKeyCertificate(p) ==
  LET c == Req(call[p], "certs") IN
  /\ call[p].pc = "cert"
  /\ \/ /\ call' = [call EXCEPT ![p] = AuthFailed(c)]
        /\ UNCHANGED publicKeyCertificate
     \/ \E list \in CertLists :
          IF Len(list) > 0
          THEN /\ publicKeyCertificate' = SelectCertificate(list)
               /\ call' = [call EXCEPT ![p] = [c EXCEPT !.pc = "challenge"]]
          ELSE /\ call' = [call EXCEPT ![p] = AuthFailed(c)]
               /\ UNCHANGED publicKeyCertificate
  /\ UNCHANGED <<accessToken, tokenExpiration, ksefToken, nip, credentialOf,
                 refreshTimer, liveIntervals,
                 config, cache, now, tz, probe>>

\* getChallenge(): the timestampMs it returns for a body that has a challenge
ChallengeTimestamp(body, t) ==
  IF body.timestampMs # 0 THEN body.timestampMs
  ELSE IF body.timestamp.k = "iso" THEN body.timestamp.t
  ELSE t

\* encryptTokenWithChallenge(): the plaintext it encrypts, NoPlain when it returns null
EncryptTokenWithChallenge(timestampMs) ==
  IF ~Truthy(ksefToken) \/ ~TruthyStr(publicKeyCertificate) THEN NoPlain
  ELSE IF publicKeyCertificate \notin ParsableCerts THEN NoPlain
  ELSE [token |-> ksefToken, ts |-> timestampMs]

\* getChallenge(): POST /auth/challenge, then encryptTokenWithChallenge() and
\* the nip check that opens authenticateWithToken()
GetChallenge(p) ==
  LET c == Req(call[p], "challenge") IN
  /\ call[p].pc = "challenge"
  /\ \/ call' = [call EXCEPT ![p] = AuthFailed(c)]
     \/ \E body \in ChallengeBodies(now) :
          LET plain == EncryptTokenWithChallenge(ChallengeTimestamp(body, now)) IN
          IF body.challenge = "" \/ plain = NoPlain \/ ~Truthy(nip)
          THEN call' = [call EXCEPT ![p] = AuthFailed(c)]
          ELSE call' = [call EXCEPT ![p] =
                          [c EXCEPT !.pc = "submit", !.challengeResponse = body,
                                    !.tokenToEncrypt = plain]]
  /\ UNCHANGED <<accessToken, tokenExpiration, ksefToken, nip, publicKeyCertificate,
                 credentialOf, refreshTimer, liveIntervals, config, cache, now, tz, probe>>

\* authenticateWithToken(), the test on the response of POST /auth/ksef-token
SubmitAccepted(body) == body.hasAuth

\* authenticateWithToken(): POST /auth/ksef-token
Submit(p) ==
  LET c == [Req(call[p], "submit") EXCEPT !.challengeResponse = NoChallengeResponse,
                                          !.tokenToEncrypt = NoPlain] IN
  /\ call[p].pc = "submit"
  /\ \/ call' = [call EXCEPT ![p] = AuthFailed(c)]
     \/ \E body \in SubmitBodies :
          IF SubmitAccepted(body)
          THEN call' = [call EXCEPT ![p] =
                          [c EXCEPT !.pc = "poll", !.elapsed = 0,
                                    !.tempAuthToken = body.token,
                                    !.referenceNumber = body.referenceNumber]]
          ELSE call' = [call EXCEPT ![p] = AuthFailed(c)]
  /\ UNCHANGED <<service, refreshTimer, liveIntervals, config, cache, now, tz, probe>>

\* variant: no outcome other than code 200 ends the polling
PollVerdictRetriesAll(outcome) == IF outcome = "200" THEN "ready" ELSE "wait"

\* variant: every outcome other than code 200 ends the polling as a failure
PollVerdictStrict(outcome) == IF outcome = "200" THEN "ready" ELSE "failed"

\* waitForTokenAuthStatus(): where one poll outcome leads: "ready", "failed",
\* or "wait" (sleep pollIntervalMs and test the loop condition again)
PollVerdict(outcome) ==
  IF outcome = "200" THEN "ready"
  ELSE IF outcome \in {"100", "nostatus", "http404", "error"} THEN "wait"
  ELSE "failed"

\* status codes of a 2xx body other than 100 and 200
TerminalCodes == {"450"}

\* how long a status request can take: no time, a moment, the request timeout
RequestTimeoutMs == 30000
PollDurationsMs == {0, 200, RequestTimeoutMs}

\* variant: a request error is not followed by a sleep
WaitedUnlessError(elapsed, outcome) ==
  IF outcome = "error" THEN elapsed ELSE elapsed + PollIntervalMs

\* Date.now() - startTime after the sleep that follows a non-terminal outcome
Waited(elapsed, outcome) == elapsed + PollIntervalMs

\* variant: the polling that runs out of time ends the attempt as a failure
TimeoutFails(c) == AuthFailed([c EXCEPT !.pollEnd = "timeout"])

\* the loop condition has failed: waitForTokenAuthStatus returns true and
\* authenticateWithToken goes on to redeemAccessToken
TimeoutProceeds(c) == [c EXCEPT !.pc = "redeem", !.pollEnd = "timeout"]

\* waitForTokenAuthStatus(): one iteration, GET /auth/{referenceNumber}, the
\* request taking d ms
PollTaking(p, d) ==
  LET c == Req(call[p], "poll") IN
  /\ call[p].pc = "poll"
  /\ \E outcome \in PollOutcomes :
       LET seen == [c EXCEPT !.pollAttempt = @ + 1,
                             !.elapsed = @ + d,
                             !.slowPoll = @ \/ d > 0,
                             !.sawTerminal = @ \/ outcome \in TerminalCodes]
           waited == Waited(seen.elapsed, outcome)
       IN IF PollVerdict(outcome) = "ready"
          THEN call' = [call EXCEPT ![p] = [seen EXCEPT !.pc = "redeem", !.pollEnd = outcome]]
          ELSE IF PollVerdict(outcome) = "failed"
          THEN call' = [call EXCEPT ![p] = AuthFailed([seen EXCEPT !.pollEnd = outcome])]
          ELSE LET d2 == [seen EXCEPT !.elapsed = waited,
                                     !.sawNotReady = @ \/ outcome \in {"100", "http404"}]
               IN IF waited < MaxWaitMs
                  THEN call' = [call EXCEPT ![p] = d2]
                  ELSE call' = [call EXCEPT ![p] = TimeoutProceeds(d2)]
  /\ UNCHANGED <<service, refreshTimer, liveIntervals, config, cache, now, tz, probe>>

\* one iteration whose request is answered at once
Poll(p) == PollTaking(p, 0)

\* redeemAccessToken(): POST /auth/token/redeem, then the two assignments that
\* end authenticateWithKSeF()
RedeemAccessToken(p) ==
  LET c == Req(call[p], "redeem") IN
  /\ call[p].pc = "redeem"
  /\ \/ /\ call' = [call EXCEPT ![p] = AuthFailed([c EXCEPT !.redeemed = "error"])]
        /\ UNCHANGED <<accessToken, tokenExpiration, credentialOf>>
     \/ \E body \in RedeemBodies(now) :
          IF body.hasAccess
          THEN /\ accessToken' = body.token
               /\ tokenExpiration' = NewDate(body.validUntil)
               /\ credentialOf' = ksefToken
               /\ call' = [call EXCEPT ![p] =
                             \* toISOString() of an Invalid Date throws; the
                             \* catch block returns false
                             IF NewDate(body.validUntil) = InvalidDate
                             THEN AuthFailed([c EXCEPT !.redeemed = "novalidity"])
                             ELSE AuthSucceeded([c EXCEPT !.redeemed = "token"])]
          ELSE /\ call' = [call EXCEPT ![p] = AuthFailed([c EXCEPT !.redeemed = "empty"])]
               /\ UNCHANGED <<accessToken, tokenExpiration, credentialOf>>
  /\ UNCHANGED <<ksefToken, nip, publicKeyCertificate, refreshTimer, liveIntervals, config, cache, now, tz, probe>>

(***************************************************************************)
(* Invoice gateway: getReceivedInvoices / getSentInvoices                  *)
(***************************************************************************)
\* the freshness test on the page read from the cache
PageIsFresh(rows) ==
  /\ Len(rows) > 0
  /\ now - ParseLocalTime(rows[1].cached_at, tz) < CacheExpirationMs

\* getReceivedInvoices / getSentInvoices from the call to the first remote
\* request: the cache read, the freshness test, the isInitialized() test
ListBegin(p, dir, limit, offset, via) ==
  \E rows \in QueryPages(cache, dir, limit, offset) :
    LET c == [IdleCall EXCEPT !.kind = "list", !.via = via, !.dir = dir,
                              !.limit = limit, !.offset = offset,
                              !.cachedInvoices = rows,
                              !.startValid = IsInitialized,
                              !.after401 = call[p].after401]
    IN call' = [call EXCEPT ![p] =
                  IF PageIsFresh(rows) THEN Finish(c, InvoicesResult(ParseData(rows)))
                  ELSE IF ~IsInitialized THEN [c EXCEPT !.pc = "init"]
                  ELSE [c EXCEPT !.pc = "metadata"]]

\* a direct call of kSeFService.getReceivedInvoices / getSentInvoices
ListInvoices(p, dir, limit, offset) ==
  /\ AllIdle
  /\ ListBegin(p, dir, limit, offset, "svc")
  /\ UNCHANGED <<service, refreshTimer, liveIntervals, config, cache, now, tz, probe>>

\* GET /api/invoices/received, GET /api/invoices/sent
HttpGetInvoices(p, dir, limit, offset) ==
  /\ AllIdle
  /\ refreshTimer = "active"
  /\ IF ~IsInitialized
     THEN call' = [call EXCEPT ![p] =
                     [IdleCall EXCEPT !.kind = "list", !.via = "http", !.dir = dir,
                                      !.limit = limit, !.offset = offset,
                                      !.pc = "done", !.http = HttpRefused]]
     ELSE ListBegin(p, dir, limit, offset, "http")
  /\ UNCHANGED <<service, refreshTimer, liveIntervals, config, cache, now, tz, probe>>

\* variant: the catch block returns [] without reading the cache
NoCacheFallback(p, c) ==
  call' = [call EXCEPT ![p] = Finish(c, InvoicesResult(<<>>))]

\* the catch block: the cache is read again and returned
CacheFallback(p, c) ==
  \E rows \in QueryPages(cache, c.dir, c.limit, c.offset) :
    call' = [call EXCEPT ![p] = Finish(c, InvoicesResult(ParseData(rows)))]

\* variant: the catch block leaves accessToken alone
KeepAccessToken(status, token) == token

\* what a request can fail with: HTTP 401, another HTTP error, the request
\* timeout, a network error
RequestErrors == {"401", "500", "timeout", "network"}

\* variant: any error of the metadata request invalidates the session
InvalidateOnAnyError(status, token) == "null"

\* the accessToken after the catch block has seen the error of the metadata request
AfterMetadataError(status, token) == IF status = "401" THEN "null" ELSE token

\* POST /invoices/query/metadata and what follows it
QueryMetadata(p) ==
  LET c == Req(call[p], "metadata") IN
  /\ call[p].pc = "metadata"
  /\ \/ \E list \in MetaLists :
          LET invoices == [k \in 1..Len(list) |-> MapMetadataToInvoice(list[k], c.dir)] IN
          /\ cache' = CacheAll(cache, invoices, now)
          /\ call' = [call EXCEPT ![p] =
                        Finish([c EXCEPT !.metaInvoices = list, !.fetched = TRUE],
                               InvoicesResult(invoices))]
          /\ UNCHANGED accessToken
     \/ \* a 2xx body without an invoices array
        /\ call' = [call EXCEPT ![p] = Finish(c, InvoicesResult(<<>>))]
        /\ UNCHANGED <<accessToken, cache>>
     \/ \E status \in RequestErrors :
          /\ accessToken' = AfterMetadataError(status, accessToken)
          /\ CacheFallback(p, [c EXCEPT !.got401 = (status = "401"), !.metaFailed = TRUE])
          /\ UNCHANGED cache
  /\ UNCHANGED <<tokenExpiration, ksefToken, nip, publicKeyCertificate, credentialOf,
                 refreshTimer, liveIntervals,
                 config, now, tz, probe>>

(***************************************************************************)
(* Single-invoice fetch: getInvoiceDetails, downloadInvoiceXml,            *)
(* downloadInvoicePdf (which calls getInvoiceDetails)                      *)
(***************************************************************************)
\* the accessToken after the catch block of a single-invoice fetch
AfterFetchError(status, token) == token

\* GET /invoices/ksef/{id} as issued by the three operations; gated marks the
\* Express handlers, which test isInitialized() first
FetchInvoice(p, kind, via) ==
  LET c == [IdleCall EXCEPT !.kind = kind, !.via = via, !.startValid = IsInitialized] IN
  /\ AllIdle
  /\ via = "http" => refreshTimer = "active"
  /\ IF via = "http" /\ ~IsInitialized
     THEN /\ call' = [call EXCEPT ![p] = [c EXCEPT !.pc = "done", !.http = HttpRefused]]
          /\ UNCHANGED accessToken
     ELSE IF ~TruthyStr(accessToken)
     THEN /\ call' = [call EXCEPT ![p] = Finish(c, NullResult)]
          /\ UNCHANGED accessToken
     ELSE \/ \E res \in {PayloadResult, NullResult} :
               /\ call' = [call EXCEPT ![p] = Finish(Req(c, "invoice"), res)]
               /\ UNCHANGED accessToken
          \/ \E status \in {"401", "error"} :
               /\ accessToken' = AfterFetchError(status, accessToken)
               /\ call' = [call EXCEPT ![p] =
                             Finish([Req(c, "invoice") EXCEPT !.got401 = (status = "401")],
                                    NullResult)]
  /\ UNCHANGED <<tokenExpiration, ksefToken, nip, publicKeyCertificate, credentialOf,
                 refreshTimer, liveIntervals,
                 config, cache, now, tz, probe>>

GetInvoiceDetails(p) == \E via \in {"svc", "http"} : FetchInvoice(p, "details", via)

DownloadInvoiceXml(p) == \E via \in {"svc", "http"} : FetchInvoice(p, "xml", via)

DownloadInvoicePdf(p) == \E via \in {"svc", "http"} : FetchInvoice(p, "pdf", via)

(***************************************************************************)
(* Callers of initialize(): startup, test-connection, the refresh timer    *)
(***************************************************************************)
\* kSeFService.initialize() at server startup, before the server listens
Initialize(p) ==
  /\ AllIdle
  /\ refreshTimer = "null"
  /\ call' = [call EXCEPT ![p] = [IdleCall EXCEPT !.kind = "init", !.pc = "init",
                                                  !.startValid = IsInitialized]]
  /\ UNCHANGED <<service, refreshTimer, liveIntervals, config, cache, now, tz, probe>>

\* POST /api/config/test-connection, whatever else is in flight
TestConnectionStart(p) ==
  LET c == [IdleCall EXCEPT !.kind = "init", !.via = "http", !.startValid = IsInitialized] IN
  /\ call[p].pc = "idle"
  /\ refreshTimer = "active"
  /\ call' = [call EXCEPT ![p] =
                IF config.exists THEN [c EXCEPT !.pc = "init"]
                ELSE [c EXCEPT !.pc = "done", !.http = HttpRefused]]
  /\ UNCHANGED <<service, refreshTimer, liveIntervals, config, cache, now, tz, probe>>

\* POST /api/config/test-connection while nothing else is in flight
TestConnection(p) ==
  /\ AllIdle
  /\ TestConnectionStart(p)

\* the bodies POST /api/config/save is sent
SaveBody(authMethod, token, certificatePath, skipTokenUpdate) ==
  [authMethod |-> authMethod, nip |-> Undefined, token |-> token,
   certificatePath |-> certificatePath, certificatePassword |-> Undefined,
   skipTokenUpdate |-> skipTokenUpdate]

SaveBodies ==
  {SaveBody(a, t, cp, skip) :
     a \in {"token", "certificate"},
     t \in {Undefined, <<>>, GoodToken, OtherToken, MalformedToken},
     cp \in {Undefined, <<"p">>},
     skip \in BOOLEAN}

\* saveConfig(): the row is updated, or inserted when there is none; the token
\* column is left alone when the token handed over is undefined
SaveConfigRow(row, data) ==
  LET orNull(v) == IF Truthy(v) THEN v ELSE Null
      encryptedToken == IF Truthy(data.token) THEN EncryptData(data.token) ELSE Null
      encryptedCertPassword ==
        IF Truthy(data.certificate_password) THEN EncryptData(data.certificate_password)
        ELSE Null
  IN [exists |-> TRUE,
      auth_method |-> data.auth_method,
      nip |-> orNull(data.nip),
      token |-> IF row.exists /\ data.token = Undefined THEN row.token ELSE encryptedToken,
      certificate_path |-> orNull(data.certificate_path),
      certificate_password |-> encryptedCertPassword]

\* whether the row saved holds another credential than the token of the row
\* before: another token, or an auth method that is not 'token'
CredentialReplaced(old, new) ==
  /\ old.exists /\ old.auth_method = "token" /\ Truthy(GetConfigOf(old).token)
  /\ \/ new.auth_method # "token"
     \/ GetConfigOf(new).token # GetConfigOf(old).token

\* POST /api/config/save: the body is validated, the configuration saved and
\* the service initialized again with it
SaveConfig(p) ==
  /\ AllIdle
  /\ refreshTimer = "active"
  /\ \E body \in SaveBodies :
       LET c == [IdleCall EXCEPT !.kind = "save", !.via = "http", !.startValid = IsInitialized]
           existingConfig == GetConfigOf(config)
           refused ==
             \/ body.authMethod \notin {"token", "certificate"}
             \/ IF body.skipTokenUpdate
                THEN ~existingConfig.exists \/ ~Truthy(existingConfig.token)
                ELSE body.authMethod = "token" /\ ~Truthy(body.token)
             \/ body.authMethod = "certificate" /\ ~Truthy(body.certificatePath)
           data == [auth_method |-> body.authMethod, nip |-> body.nip,
                    token |-> IF body.skipTokenUpdate THEN Undefined ELSE body.token,
                    certificate_path |-> body.certificatePath,
                    certificate_password |-> body.certificatePassword]
       IN IF refused
          THEN /\ call' = [call EXCEPT ![p] = [c EXCEPT !.pc = "done", !.http = HttpRefused]]
               /\ UNCHANGED config
          ELSE /\ config' = SaveConfigRow(config, data)
               /\ call' = [call EXCEPT ![p] =
                             [c EXCEPT !.pc = "init",
                                       !.replaced = CredentialReplaced(config, config')]]
  /\ UNCHANGED <<service, refreshTimer, liveIntervals, cache, now, tz, probe>>

\* variant: the interval in refreshTimer is not cleared before a new one is set
StartWithoutClear ==
  /\ AllIdle
  /\ liveIntervals' = liveIntervals + 1
  /\ refreshTimer' = "active"
  /\ UNCHANGED <<service, config, cache, now, tz, probe, call>>

\* startTokenRefreshTimer(): the interval in refreshTimer, if any, is cleared
\* and a new one is set
StartTokenRefreshTimer ==
  /\ AllIdle
  /\ liveIntervals' = (IF refreshTimer # "null" THEN liveIntervals - 1 ELSE liveIntervals) + 1
  /\ refreshTimer' = "active"
  /\ UNCHANGED <<service, config, cache, now, tz, probe, call>>

\* stopTokenRefreshTimer(): the interval in refreshTimer, if any, is cleared
StopTokenRefreshTimer ==
  /\ AllIdle
  /\ IF refreshTimer # "null"
     THEN /\ liveIntervals' = liveIntervals - 1
          /\ refreshTimer' = "null"
     ELSE UNCHANGED <<refreshTimer, liveIntervals>>
  /\ UNCHANGED <<service, config, cache, now, tz, probe, call>>

\* the server starts listening; the callback of listen() starts the timer
ServerListen ==
  /\ refreshTimer = "null"
  /\ StartTokenRefreshTimer

\* variant: the token is refreshed already when exactly five minutes remain
RefreshDueAtFiveMinutes ==
  /\ TruthyStr(accessToken)
  /\ tokenExpiration.k = "date"
  /\ tokenExpiration.t - now' <= FiveMinutesMs

\* whether the interval callback calls initialize()
RefreshDue ==
  /\ TruthyStr(accessToken)
  /\ tokenExpiration.k # "null"
  /\ tokenExpiration.k = "date"
  /\ tokenExpiration.t - now' < FiveMinutesMs

\* 60 s pass, whatever is in flight; the callback of a live interval runs
RefreshTick(p) ==
  /\ call[p].pc = "idle"
  /\ now + RefreshIntervalMs <= MaxNow
  /\ now' = now + RefreshIntervalMs
  /\ UNCHANGED <<service, refreshTimer, liveIntervals, config, cache, tz, probe>>
  /\ IF liveIntervals > 0 /\ RefreshDue
     THEN call' = [call EXCEPT ![p] = [IdleCall EXCEPT !.kind = "refresh", !.pc = "init",
                                                      !.startValid = IsInitialized']]
     ELSE UNCHANGED call

\* 60 s pass while nothing is in flight; the callback of a live interval runs
AdvanceClock(p) ==
  /\ AllIdle
  /\ now + RefreshIntervalMs <= MaxNow
  /\ now' = now + RefreshIntervalMs
  /\ UNCHANGED <<service, refreshTimer, liveIntervals, config, cache, tz, probe>>
  /\ IF liveIntervals > 0 /\ RefreshDue
     THEN call' = [call EXCEPT ![p] = [IdleCall EXCEPT !.kind = "refresh", !.pc = "init",
                                                      !.startValid = IsInitialized']]
     ELSE UNCHANGED call

\* the invocation has returned; its record is dropped (what stays is whether
\* it was a list call whose metadata request was answered 401)
Return(p) ==
  /\ call[p].pc = "done"
  /\ call' = [call EXCEPT ![p] =
                [IdleCall EXCEPT !.after401 = (call[p].kind = "list" /\ call[p].got401)]]
  /\ UNCHANGED <<service, refreshTimer, liveIntervals, config, cache, now, tz, probe>>

AuthStep(p) ==
  \/ InitializeBegin(p)
  \/ LoadPublicKeyCertificate(p)
  \/ GetChallenge(p)
  \/ Submit(p)
  \/ Poll(p)
  \/ RedeemAccessToken(p)

Next ==
  \/ \E a \in ListArgs : ListInvoices(Main, a[1], a[2], a[3])
  \/ \E a \in ListArgs : HttpGetInvoices(Main, a[1], a[2], a[3])
  \/ GetInvoiceDetails(Main)
  \/ DownloadInvoiceXml(Main)
  \/ DownloadInvoicePdf(Main)
  \/ Initialize(Main)
  \/ TestConnection(Main)
  \/ ServerListen
  \/ AdvanceClock(Main)
  \/ \E p \in Procs : AuthStep(p)
  \/ \E p \in Procs : QueryMetadata(p)
  \/ \E p \in Procs : Return(p)

Spec == Init /\ [][Next]_vars

(***************************************************************************)
(* The configuration is saved again and again while the server runs        *)
(***************************************************************************)
InitConfig ==
  /\ Init
  /\ tz = 0
  /\ cache = EmptyCache

NextConfig ==
  \/ Initialize(Main)
  \/ ServerListen
  \/ SaveConfig(Main)
  \/ TestConnection(Main)
  \/ AuthStep(Main)
  \/ Return(Main)

SpecConfig == InitConfig /\ [][NextConfig]_vars

(***************************************************************************)
(* The refresh timer is started and stopped in any order                   *)
(***************************************************************************)
InitTimer ==
  /\ Init
  /\ tz = 0
  /\ cache = EmptyCache

NextTimer ==
  \/ Initialize(Main)
  \/ StartTokenRefreshTimer
  \/ StopTokenRefreshTimer
  \/ AdvanceClock(Main)
  \/ TestConnection(Main)
  \/ AuthStep(Main)
  \/ Return(Main)

SpecTimer == InitTimer /\ [][NextTimer]_vars

(***************************************************************************)
(* cacheInvoice() is called with any records in any order                  *)
(***************************************************************************)
UpsertInputs == {Inv(id, amount, type) : id \in Ids, amount \in {1, 2}, type \in Directions}

InitCache ==
  /\ Init
  /\ tz = 0
  /\ config = NoConfig

\* cacheInvoice(invoiceData)
CacheUpsert ==
  /\ \E inv \in UpsertInputs :
       /\ cache' = CacheInvoice(cache, inv, now)
       /\ probe' = [k |-> "upsert", inv |-> inv]
  /\ UNCHANGED <<service, refreshTimer, liveIntervals, config, now, tz, call>>

\* 60 s pass between two calls
CacheTick ==
  /\ now + RefreshIntervalMs <= MaxNow
  /\ now' = now + RefreshIntervalMs
  /\ UNCHANGED <<service, refreshTimer, liveIntervals, config, cache, tz, probe, call>>

NextCache == CacheUpsert \/ CacheTick

SpecCache == InitCache /\ [][NextCache]_vars

(***************************************************************************)
(* Two requests of POST /api/config/test-connection are served at once     *)
(***************************************************************************)
Second == CHOOSE p \in Procs : p # Main

InitOverlap ==
  /\ Init
  /\ tz = 0
  /\ cache = EmptyCache
  /\ config = TokenConfig(GoodToken)

NextOverlap ==
  \/ Initialize(Main)
  \/ ServerListen
  \/ \E p \in {Main, Second} : TestConnectionStart(p)
  \/ \E p \in {Main, Second} : AuthStep(p)
  \/ \E p \in {Main, Second} : Return(p)

SpecOverlap == InitOverlap /\ [][NextOverlap]_vars

(***************************************************************************)
(* The server left to itself: the refresh timer ticks and the invoice      *)
(* lists are asked for over HTTP; the settings are not saved again and     *)
(* test-connection is not run                                              *)
(***************************************************************************)
InitRecover ==
  /\ Init
  /\ tz = 0
  /\ config = TokenConfig(GoodToken)
  /\ cache # EmptyCache

NextRecover ==
  \/ Initialize(Main)
  \/ ServerListen
  \/ AdvanceClock(Main)
  \/ \E a \in ListArgs : HttpGetInvoices(Main, a[1], a[2], a[3])
  \/ AuthStep(Main)
  \/ QueryMetadata(Main)
  \/ Return(Main)

\* the timer runs, the requests keep arriving, and what has been started goes on
SpecRecover ==
  /\ InitRecover
  /\ [][NextRecover]_vars
  /\ WF_vars(Initialize(Main))
  /\ WF_vars(ServerListen)
  /\ WF_vars(AdvanceClock(Main))
  /\ WF_vars(\E a \in ListArgs : HttpGetInvoices(Main, a[1], a[2], a[3]))
  /\ WF_vars(AuthStep(Main))
  /\ WF_vars(QueryMetadata(Main))
  /\ WF_vars(Return(Main))

(***************************************************************************)
(* Refresh attempts that take longer than the timer's interval             *)
(***************************************************************************)
InitRefresh ==
  /\ Init
  /\ tz = 0
  /\ cache = EmptyCache
  /\ config = TokenConfig(GoodToken)

\* an attempt that has been under way for 60 s: with every request answered
\* or timed out within 30 s, it has two requests behind it
UnderWayFor60s(q) == call[q].pc \in {"idle", "done", "submit", "poll", "redeem"}

\* the interval fires 60 s after it fired last, with attempts still in flight
TickDuringAttempt(p) ==
  /\ \A q \in Procs : UnderWayFor60s(q)
  /\ RefreshTick(p)

NextRefresh ==
  \/ Initialize(Main)
  \/ ServerListen
  \/ \E p \in Procs : TickDuringAttempt(p)
  \/ \E p \in Procs : AuthStep(p)
  \/ \E p \in Procs : Return(p)

SpecRefresh == InitRefresh /\ [][NextRefresh]_vars

(***************************************************************************)
(* Test-connection attempts whose status requests take time                *)
(***************************************************************************)
InitPoll ==
  /\ Init
  /\ tz = 0
  /\ cache = EmptyCache
  /\ config = TokenConfig(GoodToken)

\* a step of the authentication flow, a status request taking any of the
\* durations
AuthStepTaking(p) ==
  \/ InitializeBegin(p)
  \/ LoadPublicKeyCertificate(p)
  \/ GetChallenge(p)
  \/ Submit(p)
  \/ \E d \in PollDurationsMs : PollTaking(p, d)
  \/ RedeemAccessToken(p)

NextPoll ==
  \/ Initialize(Main)
  \/ ServerListen
  \/ TestConnection(Main)
  \/ AuthStepTaking(Main)
  \/ Return(Main)

(***************************************************************************)
(* Invoice lists asked for again and again, directly and over HTTP         *)
(***************************************************************************)
InitList ==
  /\ Init
  /\ tz = 0
  /\ config = TokenConfig(GoodToken)

NextList ==
  \/ Initialize(Main)
  \/ ServerListen
  \/ \E a \in ListArgs : ListInvoices(Main, a[1], a[2], a[3])
  \/ \E a \in ListArgs : HttpGetInvoices(Main, a[1], a[2], a[3])
  \/ AuthStep(Main)
  \/ QueryMetadata(Main)
  \/ Return(Main)

SpecList == InitList /\ [][NextList]_vars

SpecPoll == InitPoll /\ [][NextPoll]_vars

\* an invocation inside the flow is not held up for ever: every awaited
\* request is answered or times out, every sleep ends
SpecPollFair == SpecPoll /\ WF_vars(AuthStepTaking(Main))


(***************************************************************************)
(* Invoice packages: base64, gzip, zip.  A buffer is a sequence of bytes;  *)
(* the characters of the texts used here are bytes of their own in UTF-8,  *)
(* the bytes of the container formats are no text.                         *)
(***************************************************************************)
XmlProlog == <<"<", "?", "x", "m", "l">>

\* bytes that are no valid UTF-8
BinaryBytes == {"GZ", "CRC", "PK", "LFH", "EOCD", "xx"}

\* buffer.toString('utf-8'): invalid bytes become the replacement character
ToStringUtf8(buffer) ==
  [i \in 1..Len(buffer) |-> IF buffer[i] \in BinaryBytes THEN "U+FFFD" ELSE buffer[i]]

\* gzip: header, the deflated data, trailer with the checksum
Gzip(data) == <<"GZ">> \o data \o <<"CRC">>

\* zlib.gunzipSync(buffer): the data, or it throws
GunzipSync(buffer) ==
  IF Len(buffer) >= 2 /\ buffer[1] = "GZ" /\ buffer[Len(buffer)] = "CRC"
  THEN [ok |-> TRUE, data |-> SubSeq(buffer, 2, Len(buffer) - 1)]
  ELSE [ok |-> FALSE, data |-> <<>>]

\* a zip archive of the files: each behind a local file header, then the
\* end-of-central-directory record
RECURSIVE ZipEntries(_)
ZipEntries(files) ==
  IF files = <<>> THEN <<>> ELSE <<"LFH">> \o Head(files) \o ZipEntries(Tail(files))

Zip(files) == <<"PK">> \o ZipEntries(files) \o <<"EOCD">>

\* unzipper.Open.buffer(buffer): the files of the archive, or it throws
UnzipperOpen(buffer) ==
  IF Len(buffer) >= 2 /\ buffer[1] = "PK" /\ buffer[Len(buffer)] = "EOCD"
  THEN [ok |-> TRUE, files |-> Tail(Split(SubSeq(buffer, 2, Len(buffer) - 1), "LFH"))]
  ELSE [ok |-> FALSE, files |-> <<>>]

\* the characters that stand for the bytes that are no text in base64
Base64Char(byte) ==
  CASE byte = "GZ" -> "A" [] byte = "CRC" -> "B" [] byte = "PK" -> "C"
    [] byte = "LFH" -> "D" [] byte = "EOCD" -> "E" [] byte = "xx" -> "F"
    [] OTHER -> byte

Base64Byte(char) ==
  CASE char = "A" -> "GZ" [] char = "B" -> "CRC" [] char = "C" -> "PK"
    [] char = "D" -> "LFH" [] char = "E" -> "EOCD" [] char = "F" -> "xx"
    [] OTHER -> char

\* base64 text of a buffer
Base64(buffer) == <<"b64">> \o [i \in 1..Len(buffer) |-> Base64Char(buffer[i])]

\* Buffer.from(text, 'base64'): the bytes encoded; text that is no base64
\* encoding of anything modelled decodes, leniently, to bytes that are no text
BufferFromBase64(text) ==
  IF text # <<>> /\ Head(text) = "b64"
  THEN [i \in 1..(Len(text) - 1) |-> Base64Byte(text[i + 1])]
  ELSE IF Len(text) >= 2 THEN <<"xx">>
  ELSE <<>>

\* variant: the text found in the package is returned trimmed
DecodeTrimmed(base64Data) ==
  LET packageBuffer == BufferFromBase64(base64Data)
      gunzipped == GunzipSync(packageBuffer)
      fromGzip == ToStringUtf8(gunzipped.data)
      zip == UnzipperOpen(packageBuffer)
      fromZip == ToStringUtf8(zip.files[1])
      plain == ToStringUtf8(packageBuffer)
  IN IF gunzipped.ok /\ StartsWith(Trim(fromGzip), XmlProlog) THEN Trim(fromGzip)
     ELSE IF zip.ok /\ Len(zip.files) > 0 /\ Trim(fromZip) # <<>> THEN Trim(fromZip)
     ELSE IF Trim(plain) # <<>> THEN Trim(plain)
     ELSE Null

\* decodeInvoicePackage(base64Data): the XML text, or null
DecodeInvoicePackage(base64Data) ==
  LET packageBuffer == BufferFromBase64(base64Data)
      gunzipped == GunzipSync(packageBuffer)
      fromGzip == ToStringUtf8(gunzipped.data)
      zip == UnzipperOpen(packageBuffer)
      fromZip == ToStringUtf8(zip.files[1])
      plain == ToStringUtf8(packageBuffer)
  IN IF gunzipped.ok /\ StartsWith(Trim(fromGzip), XmlProlog) THEN fromGzip
     ELSE IF zip.ok /\ Len(zip.files) > 0 /\ Trim(fromZip) # <<>> THEN fromZip
     ELSE IF Trim(plain) # <<>> THEN plain
     ELSE Null

(***************************************************************************)
(* JSON.  A JSON text is a sequence of tokens: "{", "}", ",", ":", the     *)
(* quotation mark "Q", the key of a field, and the characters of a string. *)
(***************************************************************************)
JsonValue(t, str, fields) == [t |-> t, s |-> str, fields |-> fields]
NoJson == JsonValue("none", <<>>, <<>>)
JsonNull == JsonValue("null", <<>>, <<>>)
JsonNumber == JsonValue("number", <<"1">>, <<>>)
JsonString(str) == JsonValue("string", str, <<>>)
JsonField(key, t, str) == [key |-> key, t |-> t, s |-> str]
JsonObject(fields) == JsonValue("object", <<>>, fields)

\* the text of a JSON value
RECURSIVE StringifyFields(_)
StringifyFields(fields) ==
  IF fields = <<>> THEN <<>>
  ELSE LET f == Head(fields)
           value == IF f.t = "string" THEN <<"Q">> \o f.s \o <<"Q">> ELSE f.s
           sep == IF Len(fields) > 1 THEN <<",">> ELSE <<>>
       IN <<"Q", f.key, "Q", ":">> \o value \o sep \o StringifyFields(Tail(fields))

JsonStringify(v) ==
  IF v.t = "null" THEN <<"n", "u", "l", "l">>
  ELSE IF v.t = "number" THEN v.s
  ELSE IF v.t = "string" THEN <<"Q">> \o v.s \o <<"Q">>
  ELSE <<"{">> \o StringifyFields(v.fields) \o <<"}">>

\* a quoted string: quotation marks around characters that are none
IsQuoted(text) ==
  /\ Len(text) >= 2
  /\ text[1] = "Q"
  /\ text[Len(text)] = "Q"
  /\ \A i \in 2..(Len(text) - 1) : text[i] # "Q"

Unquoted(text) == SubSeq(text, 2, Len(text) - 1)

\* one "key": value of an object, a field with t "none" when it is malformed
ParseField(part) ==
  LET value == SubSeq(part, 5, Len(part)) IN
  IF Len(part) >= 5 /\ part[1] = "Q" /\ part[3] = "Q" /\ part[4] = ":"
  THEN IF IsQuoted(value) THEN JsonField(part[2], "string", Unquoted(value))
       ELSE IF value = <<"1">> THEN JsonField(part[2], "number", value)
       ELSE JsonField(part[2], "none", <<>>)
  ELSE JsonField("", "none", <<>>)

\* JSON.parse(text): the value, NoJson when it throws
JsonParse(text) ==
  IF text = <<"n", "u", "l", "l">> THEN JsonNull
  ELSE IF text = <<"1">> THEN JsonNumber
  ELSE IF IsQuoted(text) THEN JsonString(Unquoted(text))
  ELSE IF Len(text) >= 2 /\ text[1] = "{" /\ text[Len(text)] = "}"
  THEN LET inner == SubSeq(text, 2, Len(text) - 1)
           parts == IF inner = <<>> THEN <<>> ELSE Split(inner, ",")
           fields == [i \in 1..Len(parts) |-> ParseField(parts[i])]
       IN IF \E i \in 1..Len(fields) : fields[i].t = "none" THEN NoJson
          ELSE JsonObject(fields)
  ELSE NoJson

\* jsonPayload[key]: the value of the last field of that name ("undefined"
\* without one, and on a value that is no object)
Property(v, key) ==
  LET hits == {i \in 1..Len(v.fields) : v.fields[i].key = key}
  IN IF hits = {} THEN JsonField(key, "undefined", <<>>)
     ELSE v.fields[CHOOSE i \in hits : \A j \in hits : j <= i]

\* a || b for two property values
Or(a, b) == IF a.t \in {"undefined", "null"} \/ (a.t = "string" /\ a.s = <<>>) THEN b ELSE a

\* the header value lower-cased includes 'application/json'
ContentTypes ==
  {"", "application/json", "Application/JSON; charset=utf-8", "application/xml"}

IncludesApplicationJson(contentType) ==
  contentType \in {"application/json", "Application/JSON; charset=utf-8"}

\* what extractInvoicePayload returns: a string, a parsed JSON value, a Buffer
Payload(t, text, json) == [t |-> t, text |-> text, json |-> json]
TextPayload(text) == Payload("string", text, NoJson)
JsonPayload(v) ==
  IF v.t = "string" THEN TextPayload(v.s) ELSE Payload("json", <<>>, v)
BufferPayload(buffer) == Payload("buffer", buffer, NoJson)

\* variant: the parsed JSON is returned without a look at its package fields
ExtractJsonAsIs(response) ==
  LET textPayload == ToStringUtf8(response.data)
      jsonPayload == IF IncludesApplicationJson(response.contentType)
                     THEN JsonParse(textPayload) ELSE NoJson
  IN IF jsonPayload.t \in {"object", "number"} \/ (jsonPayload.t = "string" /\ jsonPayload.s # <<>>)
     THEN JsonPayload(jsonPayload)
     ELSE IF StartsWith(Trim(textPayload), XmlProlog) THEN TextPayload(textPayload)
     ELSE IF textPayload # <<>> THEN TextPayload(textPayload)
     ELSE BufferPayload(response.data)

\* extractInvoicePayload(response)
ExtractInvoicePayload(response) ==
  LET buffer == response.data
      textPayload == ToStringUtf8(buffer)
      jsonPayload == IF IncludesApplicationJson(response.contentType)
                     THEN JsonParse(textPayload) ELSE NoJson
      truthy == \/ jsonPayload.t \in {"object", "number"}
                \/ jsonPayload.t = "string" /\ jsonPayload.s # <<>>
      base64Package ==
        Or(Property(jsonPayload, "invoicePackage"),
           Or(Property(jsonPayload, "invoiceFile"),
              Or(Property(jsonPayload, "invoiceFileContent"),
                 Or(Property(jsonPayload, "invoiceBinaryContent"),
                    Property(jsonPayload, "invoiceBase64")))))
      xmlFromPackage ==
        IF base64Package.t = "string" /\ base64Package.s # <<>>
        THEN DecodeInvoicePackage(base64Package.s) ELSE Null
  IN IF truthy
     THEN IF Truthy(xmlFromPackage) THEN TextPayload(xmlFromPackage)
          ELSE JsonPayload(jsonPayload)
     ELSE IF StartsWith(Trim(textPayload), XmlProlog) THEN TextPayload(textPayload)
     ELSE IF textPayload # <<>> THEN TextPayload(textPayload)
     ELSE BufferPayload(buffer)

(***************************************************************************)
(* decodeInvoicePackage and extractInvoicePayload applied to packages and  *)
(* responses of every shape                                                *)
(***************************************************************************)
XmlDoc == <<"<", "a", "/", ">">>

\* XML texts: with a declaration, with a line end behind the document,
\* without a declaration
XmlTexts == {XmlProlog \o XmlDoc, XmlProlog \o XmlDoc \o <<" ">>, XmlDoc}

Texts == XmlTexts \cup {<<" ">> \o XmlProlog \o XmlDoc, <<"h", "i">>, <<" ">>, <<>>}

Packagings == {"gzip", "zip", "zip2", "plain", "truncated", "raw"}

\* the package field a text is sent in, by packaging
Package(x, packaging) ==
  CASE packaging = "gzip" -> Base64(Gzip(x))
    [] packaging = "zip" -> Base64(Zip(<<x>>))
    [] packaging = "zip2" -> Base64(Zip(<<x, XmlDoc>>))
    [] packaging = "plain" -> Base64(x)
    [] packaging = "truncated" -> Base64(<<"GZ">> \o x)
    [] OTHER -> x

EmptyArchive == Base64(Zip(<<>>))

PackageFields ==
  {"invoicePackage", "invoiceFile", "invoiceFileContent", "invoiceBinaryContent", "invoiceBase64"}

Response(contentType, data) == [contentType |-> contentType, data |-> data]

\* JSON bodies: an object with one field (a package field or another) that
\* holds a package or a number, objects with two package fields, with no
\* field, and values that are no object
JsonBodies ==
  {JsonObject(<<JsonField(key, "string", Package(x, pk))>>) :
     key \in PackageFields \cup {"other"}, x \in {XmlProlog \o XmlDoc, <<" ">>}, pk \in {"gzip", "zip", "plain"}}
  \cup {JsonObject(<<JsonField(key, "string", EmptyArchive)>>) : key \in PackageFields}
  \cup {JsonObject(<<JsonField(key, "number", <<"1">>)>>) : key \in PackageFields}
  \cup {JsonObject(<<JsonField("invoiceFile", "string", Package(XmlDoc, "zip")),
                     JsonField("invoicePackage", "string", v)>>) :
           v \in {<<>>, Package(XmlProlog \o XmlDoc, "gzip")}}
  \cup {JsonObject(<<>>), JsonNull, JsonNumber, JsonString(XmlProlog \o XmlDoc), JsonString(<<>>)}

\* what is decoded and what is unwrapped
UnwrapInputs ==
  {[k |-> "package", x |-> x, packaging |-> pk, in |-> Package(x, pk)] :
     x \in Texts, pk \in Packagings}
  \cup {[k |-> "response", json |-> v, in |-> Response(ct, JsonStringify(v))] :
          v \in JsonBodies, ct \in {"application/json", "Application/JSON; charset=utf-8"}}
  \cup {[k |-> "response", json |-> NoJson, in |-> Response(ct, x)] :
          x \in Texts \cup {Gzip(XmlDoc)}, ct \in ContentTypes}

InitUnwrap ==
  /\ InitService
  /\ config = NoConfig
  /\ cache = EmptyCache
  /\ tz = 0
  /\ probe \in UnwrapInputs

\* decodeInvoicePackage is applied to the package
DecodeCall ==
  /\ probe.k = "package"
  /\ probe' = [k |-> "decoded", x |-> probe.x, packaging |-> probe.packaging,
                in |-> probe.in, out |-> DecodeInvoicePackage(probe.in)]
  /\ UNCHANGED <<service, refreshTimer, liveIntervals, config, cache, now, tz, call>>

\* extractInvoicePayload is applied to the response
ExtractCall ==
  /\ probe.k = "response"
  /\ probe' = [k |-> "extracted", json |-> probe.json, in |-> probe.in,
                out |-> ExtractInvoicePayload(probe.in)]
  /\ UNCHANGED <<service, refreshTimer, liveIntervals, config, cache, now, tz, call>>

NextUnwrap == DecodeCall \/ ExtractCall

SpecUnwrap == InitUnwrap /\ [][NextUnwrap]_vars

(***************************************************************************)
(* GET /api/config answered for two stored configurations side by side     *)
(***************************************************************************)
\* column api_url is never written: it holds its default
ApiUrlDefault == "https://ksef.mf.gov.pl"

NoConfigData ==
  [authMethod |-> "", nip |-> <<>>, token |-> <<>>, hasToken |-> FALSE,
   certificatePath |-> <<>>, certificatePassword |-> <<>>, apiUrl |-> ""]

\* variant: the decrypted token is sent along
GetConfigResponseWithToken(row) ==
  LET cfg == GetConfigOf(row)
      orEmpty(v) == IF Truthy(v) THEN v ELSE <<>>
  IN IF ~row.exists THEN [success |-> FALSE, data |-> NoConfigData]
     ELSE [success |-> TRUE,
           data |-> [authMethod |-> cfg.auth_method,
                     nip |-> orEmpty(cfg.nip),
                     token |-> orEmpty(cfg.token),
                     hasToken |-> Truthy(cfg.token),
                     certificatePath |-> orEmpty(cfg.certificate_path),
                     certificatePassword |-> orEmpty(cfg.certificate_password),
                     apiUrl |-> ApiUrlDefault]]

\* GET /api/config: the body of the response for the row stored
GetConfigResponse(row) ==
  LET cfg == GetConfigOf(row)
      orEmpty(v) == IF Truthy(v) THEN v ELSE <<>>
  IN IF ~row.exists THEN [success |-> FALSE, data |-> NoConfigData]
     ELSE [success |-> TRUE,
           data |-> [authMethod |-> cfg.auth_method,
                     nip |-> orEmpty(cfg.nip),
                     token |-> <<>>,
                     hasToken |-> Truthy(cfg.token),
                     certificatePath |-> orEmpty(cfg.certificate_path),
                     certificatePassword |-> orEmpty(cfg.certificate_password),
                     apiUrl |-> ApiUrlDefault]]

\* what column token can hold: NULL, a ciphertext, a plain text of old data
StoredTokens ==
  {Null} \cup {EncryptData(t) : t \in {GoodToken, OtherToken, MalformedToken}}
         \cup {GoodToken, MalformedToken}

\* the rows table config can hold
StoredConfigs ==
  {[exists |-> TRUE, auth_method |-> a, nip |-> n, token |-> t,
    certificate_path |-> cp, certificate_password |-> pw] :
     a \in {"token", "certificate"}, n \in {Null, <<"7">>}, t \in StoredTokens,
     cp \in {Null, <<"p">>}, pw \in {Null, EncryptData(<<"s">>)}}

\* two stored configurations that differ at most in column token, or no
\* configuration at all
ConfigPairs ==
  {[k |-> "stored", a |-> a, b |-> [a EXCEPT !.token = t]] :
     a \in StoredConfigs, t \in StoredTokens}
  \cup {[k |-> "stored", a |-> NoConfig, b |-> NoConfig]}

InitGetConfig ==
  /\ InitService
  /\ config = NoConfig
  /\ cache = EmptyCache
  /\ tz = 0
  /\ probe \in ConfigPairs

\* GET /api/config is answered for either configuration
GetConfigCall ==
  /\ probe.k = "stored"
  /\ probe' = [k |-> "responded", a |-> probe.a, b |-> probe.b,
                ra |-> GetConfigResponse(probe.a), rb |-> GetConfigResponse(probe.b)]
  /\ UNCHANGED <<service, refreshTimer, liveIntervals, config, cache, now, tz, call>>

NextGetConfig == GetConfigCall

SpecGetConfig == InitGetConfig /\ [][NextGetConfig]_vars

(***************************************************************************)
(* Properties                                                              *)
(***************************************************************************)
Range(s) == {s[i] : i \in 1..Len(s)}

Count(s, x) == Cardinality({i \in 1..Len(s) : s[i] = x})

IsPrefix(s, t) == Len(s) <= Len(t) /\ s = SubSeq(t, 1, Len(s))

\* the requests of one authenticate attempt, in the order the flow prescribes
AuthOrder == <<"certs", "challenge", "submit", "poll", "redeem">>

\* the authentication requests of an invocation's log
AuthReqs(c) == SelectSeq(c.reqs, LAMBDA r : r \in Range(AuthOrder))

\* no request can be issued by invocation p in this state
Quiet(p) == ~ENABLED (AuthStep(p) \/ QueryMetadata(p))

\* the outcome of the authenticate attempt an invocation ran
AuthenticateSucceeded(c) ==
  IF c.kind = "list" THEN c.pc = "metadata" \/ "metadata" \in Range(c.reqs)
  ELSE c.pc = "done" /\ c.result = BoolResult(TRUE)

\* session validity as the specification words it
CredentialPresent == accessToken \notin {"null", "undefined"}
ExpiresAtAbsent == tokenExpiration = NoDate
ExpiresAtAfterNow == tokenExpiration.k = "date" /\ tokenExpiration.t > now
SessionValid == CredentialPresent /\ (ExpiresAtAbsent \/ ExpiresAtAfterNow)

\* the page of the cache an invocation's arguments select, as parsed invoices
CachedPages(c) ==
  {ParseData(rows) : rows \in QueryPages(cache, c.dir, c.limit, c.offset)}

\* the age, at the invocation, of the newest row of the page it read
PageAge(c) == now - c.cachedInvoices[1].cached_at

----------------------------------------------------------------------------
\* C1: an authenticate attempt that is at a status poll or at the redeem
\* request holds both a reference number and a temporary token from its
\* submit response; a submit response that lacks either one ends the attempt
\* before any poll or redeem.
C1_PollAndRedeemNeedBothSubmitFields ==
  \A p \in Procs :
    call[p].pc \in {"poll", "redeem"} =>
      /\ call[p].referenceNumber \notin {"null", "undefined"}
      /\ call[p].tempAuthToken \notin {"null", "undefined"}

----------------------------------------------------------------------------
\* C2: within one invocation the authentication requests are issued in the
\* order certs, challenge, submit, polls, redeem: the log is always a prefix
\* of that order, each request is issued exactly when all the earlier ones
\* have been answered, and an invocation that has returned (a failed step
\* returns at once) can issue no further request.
C2_StrictStepOrder ==
  \A p \in Procs :
    LET c == call[p]
        a == AuthReqs(c)
    IN /\ IsPrefix(a, AuthOrder)
       /\ c.pc \in {"init", "cert"} => a = <<>>
       /\ c.pc = "challenge" => a = SubSeq(AuthOrder, 1, 1)
       /\ c.pc = "submit" => a = SubSeq(AuthOrder, 1, 2)
       /\ c.pc = "poll" => a \in {SubSeq(AuthOrder, 1, 3), SubSeq(AuthOrder, 1, 4)}
       /\ c.pc = "redeem" => a = SubSeq(AuthOrder, 1, 4)
       /\ c.pc = "done" => Quiet(p)

\* an attempt whose submit request failed has returned false with the log
\* ending at submit
C2_Witness ==
  \E p \in Procs :
    /\ call[p].kind = "init"
    /\ call[p].pc = "done"
    /\ call[p].result = BoolResult(FALSE)
    /\ call[p].reqs = SubSeq(AuthOrder, 1, 3)

----------------------------------------------------------------------------
----------------------------------------------------------------------------
\* C4: isInitialized() is true exactly when the access credential is present
\* and the expiry is absent or later than now; in every reachable state.
C4_IsValidIffPresentAndUnexpired == IsInitialized <=> SessionValid

\* a session invalidated by a 401: no credential, expiry still in the future
C4_Witness ==
  /\ accessToken = "null"
  /\ ExpiresAtAfterNow
  /\ ~IsInitialized

----------------------------------------------------------------------------
\* C5: a list call that read a non-empty page whose newest row was cached
\* less than five minutes ago issues no remote request, and what it returns
\* is that page.
C5_FreshPageServedWithoutRequests ==
  \A p \in Procs :
    LET c == call[p]
    IN (c.kind = "list" /\ c.cachedInvoices # <<>> /\ PageAge(c) < CacheExpirationMs) =>
         /\ c.reqs = <<>>
         /\ c.pc = "done" => c.result = InvoicesResult(ParseData(c.cachedInvoices))

----------------------------------------------------------------------------
\* C6: when the metadata request of a list call is answered 401, the call
\* returns with the session invalid and with the cached page of its
\* arguments (stale rows included) as an ordinary result.
C6_UnauthorizedFallsBackToCache ==
  \A p \in Procs :
    LET c == call[p]
    IN (c.kind = "list" /\ c.got401) =>
         /\ c.pc = "done"
         /\ ~IsInitialized
         /\ c.result.k = "invoices"
         /\ c.result.v \in CachedPages(c)

\* a 401 answered with a stale, non-empty page
C6_Witness ==
  \E p \in Procs :
    /\ call[p].kind = "list"
    /\ call[p].got401
    /\ call[p].pc = "done"
    /\ call[p].cachedInvoices # <<>>
    /\ PageAge(call[p]) >= CacheExpirationMs
    /\ call[p].result.v # <<>>

----------------------------------------------------------------------------
\* C7: the answer to GET /api/invoices/received or /sent carries invoice
\* data, and is not a failure, whenever the cache holds a row in the page
\* asked for.
C7_CachedPageAlwaysServed ==
  \A p \in Procs :
    LET c == call[p]
    IN (c.kind = "list" /\ c.via = "http" /\ c.pc = "done"
        /\ \E page \in CachedPages(c) : page # <<>>) =>
         /\ c.http.success
         /\ c.http.invoices # <<>> \/ c.fetched

----------------------------------------------------------------------------
\* C8: the step in which the metadata query succeeds with records r1..rn
\* returns the mapped r1..rn in upstream order, leaves each ri in the cache
\* under its id with the requested direction, and leaves every row with
\* another id as it was.
C8_FetchReturnsAndCachesUpstream ==
  [][\A p \in Procs :
       (call[p].pc = "metadata" /\ call'[p].fetched) =>
         LET c == call'[p]
             r == c.metaInvoices
             mapped == [k \in 1..Len(r) |->
                          [id |-> r[k].ksefNumber, amount |-> r[k].grossAmount,
                           type |-> c.dir]]
         IN /\ c.result = InvoicesResult(mapped)
            /\ \A k \in 1..Len(r) :
                 \E row \in cache' :
                   /\ row.id = r[k].ksefNumber
                   /\ row.data = mapped[k]
                   /\ row.type = c.dir
            /\ LET others(t) == {row \in t : row.id \notin {r[k].ksefNumber : k \in 1..Len(r)}}
               IN others(cache') = others(cache)]_vars

\* a stale page was read, two records were fetched, one of them cached
\* before with other fields, and a row with a third id is still there
C8_Witness ==
  \E p \in Procs :
    /\ call[p].kind = "list"
    /\ call[p].pc = "done"
    /\ call[p].fetched
    /\ call[p].cachedInvoices # <<>>
    /\ call[p].cachedInvoices[1].data.amount = 1
    /\ Len(call[p].metaInvoices) = 2
    /\ Len(call[p].result.v) = 2
    /\ \E row \in cache : row.id = "a" /\ row.data.amount = 2
    /\ \E row \in cache : row.id = "c" /\ row.type = "sent"

----------------------------------------------------------------------------
\* C9: a list call whose metadata request was answered 401 returns with that
\* request as its last one (one metadata request, nothing after it); the
\* next list call finds the session invalid, and if it issues a metadata
\* request, the whole authentication flow has run before it.
C9_ReauthOnNextCallOnly ==
  \A p \in Procs :
    LET c == call[p]
    IN /\ (c.kind = "list" /\ c.got401) =>
            /\ c.pc = "done" /\ Quiet(p)
            /\ Count(c.reqs, "metadata") = 1
            /\ c.reqs[Len(c.reqs)] = "metadata"
       /\ (c.kind = "list" /\ c.after401) =>
            /\ ~c.startValid
            /\ "metadata" \in Range(c.reqs) => c.reqs = AuthOrder \o <<"metadata">>

\* the call after a 401 has authenticated and then queried the metadata
C9_Witness ==
  \E p \in Procs :
    /\ call[p].kind = "list"
    /\ call[p].after401
    /\ call[p].reqs = AuthOrder \o <<"metadata">>
    /\ call[p].fetched

----------------------------------------------------------------------------
\* C10: whenever a request of an invocation was answered 401 (the metadata
\* query, or the single-invoice fetch of getInvoiceDetails and of the XML and
\* PDF downloads), the session is invalid when the invocation returns.
C10_Every401Invalidates ==
  \A p \in Procs :
    (call[p].pc = "done" /\ call[p].got401) => ~IsInitialized

(***************************************************************************)
(* C11..C20                                                                *)
(***************************************************************************)
\* the token the stored configuration holds now, as getConfig() hands it over
ConfiguredToken == GetConfigOf(config).token

\* an authenticate attempt of invocation p is under way
InAuthFlow(p) == call[p].pc \in {"cert", "challenge", "submit", "poll", "redeem"}

StripPrefix(s, prefix) ==
  IF IsPrefix(prefix, s) THEN SubSeq(s, Len(prefix) + 1, Len(s)) ELSE s

\* C11: once initialize has read the configuration, the taxId is the second
\* '|'-segment of the token configured now, without its prefix 'nip-'; with a
\* token of fewer than two segments the taxId is absent and no submit request
\* is issued.
C11_TaxIdOfCurrentToken ==
  \A p \in Procs :
    InAuthFlow(p) =>
      LET tokenParts == Split(ConfiguredToken, "|")
      IN IF Len(tokenParts) >= 2
         THEN nip = StripPrefix(tokenParts[2], NipPrefix)
         ELSE nip = Null /\ "submit" \notin Range(call[p].reqs)

\* the attempt of invocation p has encrypted its plaintext and is about to
\* submit it
AboutToSubmit(p) == call[p].pc = "submit"

\* C12: the timestamp in the plaintext "<rawToken>|<T>" an attempt encrypts is
\* the timestamp of that attempt's challenge response (timestampMs, else the
\* ISO timestamp converted), never the local clock; a challenge response
\* without a timestamp lets nothing be encrypted or submitted.
C12_TimestampIsTheChallengeTimestamp ==
  \A p \in Procs :
    AboutToSubmit(p) =>
      LET body == call[p].challengeResponse
          plain == call[p].tokenToEncrypt
      IN /\ body.timestampMs # 0 \/ body.timestamp.k = "iso"
         /\ plain.ts = (IF body.timestampMs # 0 THEN body.timestampMs ELSE body.timestamp.t)
         /\ plain.token = ksefToken

\* a tick of the refresh timer starts the authentication flow in this step
RefreshStarts == \E p \in Procs : call'[p].kind = "refresh" /\ call'[p].pc = "init"

\* C13: a tick of the active refresh timer starts the authentication flow
\* exactly when accessCredential and expiresAt are present and fewer than five
\* minutes remain until expiresAt (an expired session included); otherwise
\* the tick starts nothing and issues no request.
C13_TickRefreshesIffUnderFiveMinutes ==
  [][ (now' # now /\ refreshTimer = "active") =>
        LET due == /\ CredentialPresent
                   /\ tokenExpiration.k = "date"
                   /\ tokenExpiration.t - now' < FiveMinutesMs
        IN /\ RefreshStarts <=> due
           /\ ~due => call' = call ]_vars

\* the refresh the last tick started on an expired session has fetched the
\* certificates
C13_Witness ==
  \E p \in Procs :
    /\ call[p].kind = "refresh"
    /\ "certs" \in Range(call[p].reqs)
    /\ call[p].startValid = FALSE
    /\ now = MaxNow

\* C15: whatever the order of the start and stop calls, at most one timer is
\* active; after a stop none is, and no tick starts anything until the next
\* start; a stop without an active timer changes nothing.
C15_AtMostOneTimer ==
  /\ [](/\ liveIntervals = (IF refreshTimer = "null" THEN 0 ELSE 1)
        /\ refreshTimer = "null" => ~ENABLED <<StopTokenRefreshTimer>>_vars)
  /\ [][(refreshTimer = "null" /\ now' # now) => (~RefreshStarts /\ call' = call)]_vars

\* no timer is active at the last tick, while the session held is due for a
\* refresh
C15_Witness ==
  /\ refreshTimer = "null"
  /\ liveIntervals = 0
  /\ CredentialPresent
  /\ tokenExpiration.k = "date"
  /\ tokenExpiration.t - now < FiveMinutesMs
  /\ now = MaxNow

\* the authenticate attempt of invocation p ends as a failure in this step
AttemptFails(p) ==
  /\ call[p].pc \in {"init", "cert", "challenge", "submit", "poll", "redeem"}
  /\ call'[p].pc = "done"
  /\ call[p].kind # "list" => call'[p].result = BoolResult(FALSE)

\* C14: an authenticate attempt that fails, at whatever step, leaves
\* accessCredential and expiresAt exactly as they were.
C14_FailedAttemptKeepsSession ==
  [][\A p \in Procs : AttemptFails(p) => UNCHANGED <<accessToken, tokenExpiration>>]_vars

\* the authenticate attempt of invocation p ends as a success in this step
AttemptSucceeds(p) ==
  /\ call[p].pc = "redeem"
  /\ IF call[p].kind = "list" THEN call'[p].pc = "metadata"
     ELSE call'[p].pc = "done" /\ call'[p].result = BoolResult(TRUE)

\* invocation p is inside initialize()
Attempting(p) == call[p].pc = "init" \/ InAuthFlow(p)

\* accessCredential and expiresAt are the two fields of one redeem response
SessionOfOneResponse ==
  \E body \in RedeemBodies(now) :
    /\ body.hasAccess
    /\ body.validUntil # NoIso
    /\ accessToken' = body.token
    /\ tokenExpiration' = NewDate(body.validUntil)

\* C16: of two overlapping authenticate attempts neither waits for the other,
\* and the session holds the token and validUntil of the redeem response of
\* the successful attempt that completed last: a successful attempt stores
\* both fields of its response, and nothing else changes the two fields.
C16_LastSuccessfulAttemptWins ==
  /\ [](\A p \in Procs : Attempting(p) => ENABLED AuthStep(p))
  /\ [][\A p \in Procs :
          (Attempting(p) /\ \E q \in Procs \ {p} : Attempting(q)) =>
            /\ AttemptSucceeds(p) => SessionOfOneResponse
            /\ (\A r \in Procs : ~AttemptSucceeds(r)) =>
                  UNCHANGED <<accessToken, tokenExpiration>>]_vars

\* the same, but for the attempts whose redeem response holds a token without
\* validUntil
C16_ExceptWithoutValidUntil ==
  /\ [](\A p \in Procs : Attempting(p) => ENABLED AuthStep(p))
  /\ [][\A p \in Procs :
          (Attempting(p) /\ \E q \in Procs \ {p} : Attempting(q)) =>
            /\ AttemptSucceeds(p) => SessionOfOneResponse
            /\ ((\A r \in Procs : ~AttemptSucceeds(r))
                  /\ (\A r \in Procs : call'[r].redeemed # "novalidity")) =>
                  UNCHANGED <<accessToken, tokenExpiration>>]_vars

\* C17: after any sequence of upserts the cache holds at most one record per
\* id; the record of the id upserted carries the fields of that upsert, the
\* records of the other ids stay, and upserting the same record once more
\* leaves the contents as they are.
C17_OneRecordPerIdLastWriteWins ==
  /\ [](\A r1, r2 \in cache : r1.id = r2.id => r1 = r2)
  /\ [][(probe'.k = "upsert" /\ now' = now) =>
          LET inv == probe'.inv IN
          /\ \E r \in cache' : /\ r.id = inv.id
                                /\ r.type = inv.type
                                /\ r.data = inv
                                /\ r.cached_at = SqlCurrentTimestamp(now)
          /\ {r \in cache' : r.id # inv.id} = {r \in cache : r.id # inv.id}
          /\ CacheInvoice(cache', inv, now) = cache']_vars

\* a record has been upserted over an older record of its id, with other
\* records in the cache
C17_Witness ==
  /\ probe.k = "upsert"
  /\ now > 0
  /\ \E r \in cache : r.id = probe.inv.id /\ r.cached_at = now
  /\ \E r \in cache : r.id # probe.inv.id /\ r.cached_at < now
  /\ probe.inv.id \in {r.id : r \in UNION InitCaches}

\* a package of x has been decoded
Decoded(packaging) == probe.k = "decoded" /\ probe.packaging = packaging

HoldsPackage(pkg) ==
  /\ probe.k = "extracted"
  /\ IncludesApplicationJson(probe.in.contentType)
  /\ probe.json.t = "object"
  /\ \E i \in 1..Len(probe.json.fields) :
       /\ probe.json.fields[i].key \in PackageFields
       /\ probe.json.fields[i].t = "string"
       /\ probe.json.fields[i].s = pkg
       /\ \A j \in 1..Len(probe.json.fields) :
            j # i => probe.json.fields[j].key \notin PackageFields

\* the texts a package field can hold
PackageTexts ==
  {Package(x, pk) : x \in Texts, pk \in Packagings} \cup {EmptyArchive}

\* C19: unwrap of a response with a JSON content type whose body is a JSON
\* object holding a known package field returns the text decodePackage
\* extracts from the field, and the parsed JSON object only when decodePackage
\* yields absent; a body that is no JSON and starts with an XML prolog is
\* returned verbatim.
C19_UnwrapDecodesPackageField ==
  /\ \A pkg \in PackageTexts :
       HoldsPackage(pkg) =>
         probe.out = (IF DecodeInvoicePackage(pkg) # Null
                      THEN TextPayload(DecodeInvoicePackage(pkg))
                      ELSE Payload("json", <<>>, probe.json))
  /\ (probe.k = "extracted" /\ probe.json = NoJson /\ StartsWith(probe.in.data, XmlProlog))
       => probe.out = TextPayload(probe.in.data)

\* the XML text of a gzip package in field invoiceBase64 has been returned
C19_Witness ==
  /\ HoldsPackage(Package(XmlProlog \o XmlDoc, "gzip"))
  /\ probe.json.fields[1].key = "invoiceBase64"
  /\ probe.out = TextPayload(XmlProlog \o XmlDoc)

\* the parsed object has been returned for a package decodePackage yields
\* absent for
C19_WitnessAbsent ==
  /\ \E pkg \in PackageTexts : HoldsPackage(pkg) /\ DecodeInvoicePackage(pkg) = Null
  /\ probe.out.t = "json"

\* GET /api/config has been answered for two stored configurations
Responded == probe.k = "responded" /\ probe.a.exists /\ probe.b.exists

\* C20: GET /api/config does not disclose the stored token: two stored
\* configurations that differ only in the value of a non-empty token get
\* identical responses; the token field of a response is always the empty
\* string, and of the whole response only hasToken depends on whether a
\* token is stored.
C20_ConfigResponseHidesToken ==
  Responded =>
    /\ (Truthy(probe.a.token) /\ Truthy(probe.b.token)) => probe.ra = probe.rb
    /\ probe.ra.data.token = <<>> /\ probe.rb.data.token = <<>>
    /\ probe.ra.data.hasToken = Truthy(probe.a.token)
    /\ probe.rb.data.hasToken = Truthy(probe.b.token)
    /\ [probe.ra EXCEPT !.data.hasToken = FALSE] = [probe.rb EXCEPT !.data.hasToken = FALSE]

\* two configurations with different tokens stored encrypted have been
\* answered for
C20_Witness ==
  /\ Responded
  /\ probe.a.token = EncryptData(GoodToken)
  /\ probe.b.token = EncryptData(OtherToken)
  /\ probe.ra.success
  /\ probe.ra.data.hasToken

(***************************************************************************)
(* C21..C30                                                                *)
(***************************************************************************)
\* C21: once a status poll of an attempt has been answered with a status code
\* other than 100 and 200, the attempt has ended as a failure with no redeem
\* request issued and can issue none; the step that takes the answer leaves
\* accessCredential and expiresAt as they were.
C21_TerminalStatusEndsAttempt ==
  /\ [](\A p \in Procs :
         call[p].sawTerminal =>
           /\ call[p].pc = "done"
           /\ ~AuthenticateSucceeded(call[p])
           /\ Count(call[p].reqs, "redeem") = 0
           /\ Quiet(p))
  /\ [][\A p \in Procs :
          (call[p].pc = "poll" /\ call'[p].sawTerminal) =>
            UNCHANGED <<accessToken, tokenExpiration>>]_vars

\* an attempt started with a session in place has polled code 100, then a
\* terminal code, and has returned false with the session still in place
C21_Witness ==
  \E p \in Procs :
    /\ call[p].sawTerminal
    /\ call[p].sawNotReady
    /\ call[p].startValid
    /\ call[p].pc = "done"
    /\ call[p].result = BoolResult(FALSE)
    /\ IsInitialized

\* the polling of invocation p has run out of time with neither code 200 nor a
\* terminal code seen
PollingTimedOut(p) == call[p].pollEnd = "timeout" /\ ~call[p].sawTerminal

\* what is common to both readings of C22: the attempt is polling only while
\* less than 5000 ms have elapsed; after the timeout it is at the redeem
\* request, which nothing holds back, or has returned having issued exactly
\* one, and a success is a redeem response with token and validUntil
TimeoutThenOneRedeem(p) ==
  LET c == call[p]
  IN /\ c.pc = "poll" => c.elapsed < MaxWaitMs
     /\ PollingTimedOut(p) =>
          /\ c.pc \in {"redeem", "done"}
          /\ c.pc = "redeem" =>
               /\ c.elapsed >= MaxWaitMs
               /\ Count(c.reqs, "redeem") = 0
               /\ ENABLED RedeemAccessToken(p)
          /\ c.pc = "done" =>
               /\ Count(c.reqs, "redeem") = 1
               /\ c.redeemed # "none"
               /\ AuthenticateSucceeded(c) => c.redeemed = "token"

\* C22: after a polling timeout (5000 ms elapsed, neither code 200 nor a
\* terminal code seen) the attempt issues exactly one redeem request and
\* succeeds if and only if the redeem response carries an access token.
C22_TimeoutSucceedsIffAccessToken ==
  \A p \in Procs :
    /\ TimeoutThenOneRedeem(p)
    /\ (PollingTimedOut(p) /\ call[p].pc = "done") =>
         (call[p].redeemed \in {"token", "novalidity"} => AuthenticateSucceeded(call[p]))

\* the same, where "carries an access token" is narrowed to a response whose
\* accessToken holds a token and a validUntil that is a date
C22_TimeoutSucceedsIffTokenAndValidUntil ==
  \A p \in Procs :
    /\ TimeoutThenOneRedeem(p)
    /\ (PollingTimedOut(p) /\ call[p].pc = "done") =>
         (call[p].redeemed = "token" => AuthenticateSucceeded(call[p]))

\* an attempt has polled ten times in vain, has redeemed after the timeout
\* and has returned true
C22_Witness ==
  \E p \in Procs :
    /\ PollingTimedOut(p)
    /\ ~call[p].slowPoll
    /\ call[p].pc = "done"
    /\ call[p].redeemed = "token"
    /\ call[p].result = BoolResult(TRUE)
    /\ Count(call[p].reqs, "redeem") = 1

\* the most status requests a polling phase can issue when none takes time
MaxPolls == MaxWaitMs \div PollIntervalMs

\* C23: the polling phase of every attempt ends; a status request is started
\* only while less than 5000 ms have elapsed since the polling began; each
\* iteration that does not end the polling (code 100, no status, HTTP 404,
\* another request error) is one more request followed by a wait of 500 ms;
\* when the requests take no time, at most ten are issued per attempt.
C23_PollingIsBounded ==
  /\ [](\A p \in Procs :
         /\ call[p].pc = "poll" => call[p].elapsed < MaxWaitMs
         /\ ~call[p].slowPoll => call[p].pollAttempt <= MaxPolls)
  /\ [][\A p \in Procs :
          (call[p].pc = "poll" /\ call'[p] # call[p]
             /\ (call'[p].pc = "poll" \/ call'[p].pollEnd = "timeout")) =>
            /\ call'[p].elapsed >= call[p].elapsed + PollIntervalMs
            /\ call'[p].pollAttempt = call[p].pollAttempt + 1]_vars
  /\ \A p \in Procs : (call[p].pc = "poll") ~> (call[p].pc # "poll")

\* ten status requests that took no time have been answered without an end,
\* among them code 100 or HTTP 404, and the polling is over
C23_Witness ==
  \E p \in Procs :
    /\ call[p].pollAttempt = MaxPolls
    /\ ~call[p].slowPoll
    /\ call[p].sawNotReady
    /\ call[p].pc = "redeem"
    /\ call[p].elapsed = MaxWaitMs

\* invocation p is a call of getReceivedInvoices / getSentInvoices that found
\* its cache page not fresh (empty, or its newest row cached five minutes ago
\* or earlier) and the session invalid
StaleAndInvalid(p) ==
  /\ call[p].kind = "list"
  /\ call[p].pc # "idle"
  /\ call[p].http # HttpRefused
  /\ call[p].cachedInvoices = <<>> \/ PageAge(call[p]) >= CacheExpirationMs
  /\ ~call[p].startValid

\* C24: a list call with a non-fresh cache page and an invalid session runs
\* authenticate before anything else: a metadata request is issued only with
\* the whole flow behind it; when the authentication has failed, the call has
\* issued no metadata request and has returned the page it read from the
\* cache, stale rows included, which is the empty sequence when it read none.
C24_FailedAuthReturnsCachedPage ==
  \A p \in Procs :
    StaleAndInvalid(p) =>
      LET c == call[p]
      IN /\ c.pc \in {"init", "cert", "challenge", "submit", "poll", "redeem",
                       "metadata", "done"}
         /\ c.pc = "metadata" => c.reqs = AuthOrder
         /\ "metadata" \in Range(c.reqs) => c.reqs = AuthOrder \o <<"metadata">>
         /\ (c.pc = "done" /\ ~AuthenticateSucceeded(c)) =>
              /\ "metadata" \notin Range(c.reqs)
              /\ c.reqs # <<>> => IsPrefix(c.reqs, AuthOrder)
              /\ c.result = InvoicesResult(ParseData(c.cachedInvoices))
              /\ c.cachedInvoices = <<>> => c.result.v = <<>>

\* a list call that read a stale page with the session invalid has returned
\* that page after its authentication failed at the submit request
C24_Witness ==
  \E p \in Procs :
    /\ StaleAndInvalid(p)
    /\ call[p].pc = "done"
    /\ call[p].reqs = SubSeq(AuthOrder, 1, 3)
    /\ call[p].cachedInvoices # <<>>
    /\ call[p].result = InvoicesResult(ParseData(call[p].cachedInvoices))

\* the metadata request of list call p has failed with something other than
\* HTTP 401
FailedNot401(c) == c.kind = "list" /\ c.metaFailed /\ ~c.got401

\* C25: when the metadata request of a list call fails with anything other
\* than 401, that request is the call's only metadata request and its last
\* request, the call has returned with the cached page of its direction and
\* arguments (possibly empty), and the step leaves accessCredential and
\* expiresAt as they were.
C25_OtherErrorsFallBackAndKeepSession ==
  /\ [](\A p \in Procs :
         FailedNot401(call[p]) =>
           /\ call[p].pc = "done" /\ Quiet(p)
           /\ Count(call[p].reqs, "metadata") = 1
           /\ call[p].reqs[Len(call[p].reqs)] = "metadata"
           /\ call[p].result.k = "invoices"
           /\ call[p].result.v \in CachedPages(call[p])
           /\ \A i \in 1..Len(call[p].result.v) : call[p].result.v[i].type = call[p].dir)
  /\ [][\A p \in Procs :
          (call[p].pc = "metadata" /\ FailedNot401(call'[p])) =>
            UNCHANGED <<accessToken, tokenExpiration, cache>>]_vars

\* a list call with a valid session has had its metadata request fail and has
\* returned a non-empty page of stale rows with the session still valid
C25_Witness ==
  \E p \in Procs :
    /\ FailedNot401(call[p])
    /\ call[p].startValid
    /\ call[p].pc = "done"
    /\ call[p].result.v # <<>>
    /\ call[p].result.v = ParseData(call[p].cachedInvoices)
    /\ IsInitialized

\* C26: getInvoiceDetails issues the invoice fetch only when the session was
\* valid at the call (credential present and not expired); called with an
\* absent or an expired session it returns absent with no request issued.
C26_DetailsOnlyWithValidSession ==
  \A p \in Procs :
    LET c == call[p]
    IN (c.kind = "details" /\ c.pc = "done" /\ c.http # HttpRefused) =>
         /\ "invoice" \in Range(c.reqs) => c.startValid
         /\ ~c.startValid => (c.reqs = <<>> /\ c.result = NullResult)

\* the same for the sessions without a credential only
C26_DetailsOnlyWithCredential ==
  \A p \in Procs :
    LET c == call[p]
    IN (c.kind = "details" /\ c.pc = "done" /\ c.http # HttpRefused) =>
         /\ "invoice" \in Range(c.reqs) => TruthyStr(accessToken)
         /\ ~TruthyStr(accessToken) => (c.reqs = <<>> /\ c.result = NullResult)

\* the session has been invalidated by a 401 answer to a metadata request
InvalidatedBy401 == \E p \in Procs : call[p].kind = "list" /\ call[p].got401

\* C27: after the session has been invalidated by a 401, with the stored
\* credential unchanged, the refresh timer running and invoice-list requests
\* arriving at the HTTP endpoints, the session eventually is valid again.
C27_SessionRecoversAfter401 == InvalidatedBy401 ~> IsInitialized

\* what happens instead: once the credential is gone, neither a tick of the
\* timer nor a list request over HTTP starts an authentication, and the
\* session stays without a credential
C27_NoCredentialNoAttempt ==
  [][accessToken = "null" /\ refreshTimer = "active" =>
       /\ accessToken' = "null"
       /\ \A p \in Procs : call'[p].pc \notin {"init", "cert", "challenge", "submit",
                                                "poll", "redeem", "metadata"}]_vars

\* POST /api/config/save has replaced the stored credential and the
\* re-initialization that follows has finished
ReplacedAndReinitialized(p) ==
  call[p].kind = "save" /\ call[p].pc = "done" /\ call[p].replaced

\* C28: after a config save has replaced the stored credential and the
\* re-initialization has finished, the session is valid only if its access
\* credential was obtained with the token stored now; a session obtained with
\* the previous credential is not valid any more.
C28_NoValidSessionOfPreviousCredential ==
  \A p \in Procs :
    (ReplacedAndReinitialized(p) /\ IsInitialized) =>
      /\ GetConfigOf(config).auth_method = "token"
      /\ credentialOf = ConfiguredToken

\* the same for the saves whose re-initialization has succeeded
C28_SuccessfulReinitUsesStoredToken ==
  \A p \in Procs :
    (ReplacedAndReinitialized(p) /\ call[p].result = BoolResult(TRUE)) =>
      /\ GetConfigOf(config).auth_method = "token"
      /\ credentialOf = ConfiguredToken

\* the refresh attempts in flight
RefreshesInFlight ==
  {p \in Procs : call[p].kind = "refresh" /\ call[p].pc \notin {"idle", "done"}}

\* C29: at any time at most one authenticate attempt started by a tick of the
\* refresh timer is in flight, however long an attempt takes.
C29_OneRefreshAtATime == Cardinality(RefreshesInFlight) <= 1

\* everything getInvoicesByType returns for a direction from cache c
AllOfDirection(c, dir) == QueryPages(c, dir, Cardinality(Ids), 0)

\* list call p caches the records it has fetched in this step
CachesFetched(p) == call[p].pc = "metadata" /\ call'[p].fetched

\* C30: the step in which a list call caches the records fetched for its
\* direction leaves what the cache returns for the other direction as it
\* was, also when a record fetched has the id of a row of the other direction.
C30_OtherDirectionUntouched ==
  [][\A p \in Procs :
       CachesFetched(p) =>
         \A dir \in Directions \ {call'[p].dir} :
           AllOfDirection(cache', dir) = AllOfDirection(cache, dir)]_vars

\* the same for the rows of the other direction whose id is not among the
\* ids fetched
C30_OtherIdsUntouched ==
  [][\A p \in Procs :
       CachesFetched(p) =>
         LET fetchedIds == {call'[p].metaInvoices[k].ksefNumber :
                              k \in 1..Len(call'[p].metaInvoices)}
             others(c) == {r \in c : r.type # call'[p].dir /\ r.id \notin fetchedIds}
         IN others(cache') = others(cache)]_vars

====
